---- MODULE Spec2Model ----
(***************************************************************************)
(* Model of the poker session ledger, src/game_session.py (GameSession).   *)
(*                                                                         *)
(* A session is a record with one field per attribute of GameSession.      *)
(* Python values are represented as follows:                               *)
(*   - an optional value is a set: {} is None, {v} is the value v;         *)
(*   - active_players, a dict whose iteration order the code relies on     *)
(*     (line 84), is a sequence of <<player, stack>> pairs in insertion    *)
(*     order with unique keys;                                             *)
(*   - the other dicts, only read by key or through set(keys), are         *)
(*     functions whose DOMAIN is the set of keys;                          *)
(*   - an event is the tuple <<date, event_type, player, action, stack>>   *)
(*     of line 30; an f-string label is the tuple of its literal text and  *)
(*     the values formatted into it;                                       *)
(*   - amounts of money are integers (whole currency units).               *)
(* Every ledger method is an operator from a session (and its argument)    *)
(* to [session |-> the session afterwards, ret |-> the returned value].    *)
(***************************************************************************)
EXTENDS Integers, Sequences, FiniteSets, TLC

(* ---------------------------- bounds ----------------------------------- *)

\* longest player list given to the constructor
MaxInit == 2
\* a mutation is explored only while the log stays within this length
MaxEvents == 8
\* set_winner is explored only while game_count is below this index
MaxGames == 3

\* player names the commands are tried with
Players == {"A", "B"}
\* buy-in amounts: float(args[1]) accepts any number, also zero and negatives
BuyIns == {-1, 0, 2, 5}
\* the calendar day of datetime.now() at construction
Dates == {"2024-05-01"}

(* ------------------------- Python values ------------------------------- *)

None == {}
Some(v) == {v}
Val(o) == CHOOSE v \in o : TRUE

\* truth value of an optional string, as in `if player and ...`
Truthy(o) == o # None /\ Val(o) # ""

\* dict.get(k, default)
Get(d, k, default) == IF k \in DOMAIN d THEN d[k] ELSE default

\* d[k] = v
Put(d, k, v) == [x \in (DOMAIN d) \cup {k} |-> IF x = k THEN v ELSE d[x]]

\* the empty dict
EmptyDict == [x \in {} |-> 0]

\* keys of the ordered dict, in iteration order
Keys(ap) == [i \in 1..Len(ap) |-> ap[i][1]]

\* k in ap
HasKey(ap, k) == \E i \in 1..Len(ap) : ap[i][1] = k

\* ap[k], for a key that is present
StackOf(ap, k) == ap[CHOOSE i \in 1..Len(ap) : ap[i][1] = k][2]

\* ap[k] = v : an existing key keeps its position, a new key goes last
OPut(ap, k, v) ==
    IF HasKey(ap, k)
    THEN [i \in 1..Len(ap) |-> IF ap[i][1] = k THEN <<k, v>> ELSE ap[i]]
    ELSE Append(ap, <<k, v>>)

\* a pop that takes out the oldest entry, whatever the key
OPop_oldest(ap, k) == Tail(ap)

\* ap.pop(k) : the dict without the key k
OPop(ap, k) == SelectSeq(ap, LAMBDA e : e[1] # k)

\* sum(ap.values())
RECURSIVE SumStacks(_)
SumStacks(ap) == IF ap = <<>> THEN 0 ELSE ap[1][2] + SumStacks(Tail(ap))

(* ------------------------------ events --------------------------------- *)

\* add_event that keeps the newest event first
add_event_newestFirst(s, event_type, player, action, stack) ==
    [s EXCEPT !.events = <<<<s.date, event_type, player, action, stack>>>> \o @]

\* add_event: the log with one more tuple at its end
add_event(s, event_type, player, action, stack) ==
    [s EXCEPT !.events = Append(@, <<s.date, event_type, player, action, stack>>)]

(* ---------------------------- __init__ --------------------------------- *)

\* {player: buy_in for player in players}
RECURSIVE DictComp(_, _)
DictComp(players, v) ==
    IF players = <<>> THEN <<>>
    ELSE OPut(DictComp(SubSeq(players, 1, Len(players) - 1), v),
              players[Len(players)], v)

\* InitLoop without the join bookmark
RECURSIVE InitLoop_noJoinBookmark(_, _, _)
InitLoop_noJoinBookmark(s, players, i) ==
    IF i > Len(players) THEN s
    ELSE LET p  == players[i]
             s1 == [s EXCEPT !.total_winnings   = Put(@, p, 0),
                             !.player_leave_game = Put(@, p, None),
                             !.win_counts        = Put(@, p, 0)]
         IN  InitLoop_noJoinBookmark(add_event(s1, "JOIN", p, <<"Initial">>, s.buy_in),
                                     players, i + 1)

\* InitLoop with game indices counted from 0
RECURSIVE InitLoop_joinAtZero(_, _, _)
InitLoop_joinAtZero(s, players, i) ==
    IF i > Len(players) THEN s
    ELSE LET p  == players[i]
             s1 == [s EXCEPT !.total_winnings   = Put(@, p, 0),
                             !.player_join_game  = Put(@, p, 0),
                             !.player_leave_game = Put(@, p, None),
                             !.win_counts        = Put(@, p, 0)]
         IN  InitLoop_joinAtZero(add_event(s1, "JOIN", p, <<"Initial">>, s.buy_in),
                                 players, i + 1)

\* the loop of lines 20-26 over the players i..Len(players)
RECURSIVE InitLoop(_, _, _)
InitLoop(s, players, i) ==
    IF i > Len(players) THEN s
    ELSE LET p  == players[i]
             s1 == [s EXCEPT !.total_winnings   = Put(@, p, 0),
                             !.player_join_game  = Put(@, p, 1),
                             !.player_leave_game = Put(@, p, None),
                             !.win_counts        = Put(@, p, 0)]
         IN  InitLoop(add_event(s1, "JOIN", p, <<"Initial">>, s.buy_in), players, i + 1)

\* GameSession(buy_in, players, date)
NewSession(buy_in, players, date) ==
    InitLoop([date              |-> date,
              buy_in            |-> buy_in,
              active_players    |-> DictComp(players, buy_in),
              initial_players   |-> players,
              events            |-> <<>>,
              winner            |-> None,
              is_active         |-> TRUE,
              game_count        |-> 1,
              total_winnings    |-> EmptyDict,
              player_join_game  |-> EmptyDict,
              player_leave_game |-> EmptyDict,
              win_counts        |-> EmptyDict],
             players, 1)

(* ---------------------------- add_player ------------------------------- *)

\* add_player that logs the IN event before it looks for a duplicate
add_player_logsBeforeCheck(s, player) ==
    LET s0 == add_event(s, "IN", player, <<"Joined">>, s.buy_in) IN
    IF HasKey(s.active_players, player)
    THEN [session |-> s0,
          ret     |-> [ok |-> FALSE, text |-> "is already in the game", player |-> player]]
    ELSE LET s2 == [s0 EXCEPT
                      !.active_players    = OPut(@, player, s.buy_in),
                      !.total_winnings    = Put(@, player, Get(s.total_winnings, player, 0)),
                      !.player_join_game  = Put(@, player, s.game_count),
                      !.player_leave_game = Put(@, player, None),
                      !.win_counts        = Put(@, player, Get(s.win_counts, player, 0))]
             total_prize == Len(s2.active_players) * s2.buy_in
         IN  [session |-> s2,
              ret     |-> [ok |-> TRUE, text |-> "joined the game with", player |-> player,
                           stack |-> s2.buy_in, total_prize |-> total_prize]]

\* add_player that leaves the leave bookmark of a returning player in place
add_player_keepsLeave(s, player) ==
    IF HasKey(s.active_players, player)
    THEN [session |-> s,
          ret     |-> [ok |-> FALSE, text |-> "is already in the game", player |-> player]]
    ELSE LET s1 == [s EXCEPT
                      !.active_players    = OPut(@, player, s.buy_in),
                      !.total_winnings    = Put(@, player, Get(s.total_winnings, player, 0)),
                      !.player_join_game  = Put(@, player, s.game_count),
                      !.player_leave_game = Put(@, player, Get(s.player_leave_game, player, None)),
                      !.win_counts        = Put(@, player, Get(s.win_counts, player, 0))]
             s2 == add_event(s1, "IN", player, <<"Joined">>, s.buy_in)
             total_prize == Len(s2.active_players) * s2.buy_in
         IN  [session |-> s2,
              ret     |-> [ok |-> TRUE, text |-> "joined the game with", player |-> player,
                           stack |-> s2.buy_in, total_prize |-> total_prize]]

\* add_player that starts a returning player's history afresh
add_player_resetsHistory(s, player) ==
    IF HasKey(s.active_players, player)
    THEN [session |-> s,
          ret     |-> [ok |-> FALSE, text |-> "is already in the game", player |-> player]]
    ELSE LET s1 == [s EXCEPT
                      !.active_players    = OPut(@, player, s.buy_in),
                      !.total_winnings    = Put(@, player, 0),
                      !.player_join_game  = Put(@, player, s.game_count),
                      !.player_leave_game = Put(@, player, None),
                      !.win_counts        = Put(@, player, 0)]
             s2 == add_event(s1, "IN", player, <<"Joined">>, s.buy_in)
             total_prize == Len(s2.active_players) * s2.buy_in
         IN  [session |-> s2,
              ret     |-> [ok |-> TRUE, text |-> "joined the game with", player |-> player,
                           stack |-> s2.buy_in, total_prize |-> total_prize]]

\* add_player that bookmarks every join at game 1, as the constructor does
add_player_joinsAtOne(s, player) ==
    IF HasKey(s.active_players, player)
    THEN [session |-> s,
          ret     |-> [ok |-> FALSE, text |-> "is already in the game", player |-> player]]
    ELSE LET s1 == [s EXCEPT
                      !.active_players    = OPut(@, player, s.buy_in),
                      !.total_winnings    = Put(@, player, Get(s.total_winnings, player, 0)),
                      !.player_join_game  = Put(@, player, 1),
                      !.player_leave_game = Put(@, player, None),
                      !.win_counts        = Put(@, player, Get(s.win_counts, player, 0))]
             s2 == add_event(s1, "IN", player, <<"Joined">>, s.buy_in)
             total_prize == Len(s2.active_players) * s2.buy_in
         IN  [session |-> s2,
              ret     |-> [ok |-> TRUE, text |-> "joined the game with", player |-> player,
                           stack |-> s2.buy_in, total_prize |-> total_prize]]

\* add_player that seats a returning player with the winnings on top of the
\* buy-in
add_player_seatsWithWinnings(s, player) ==
    IF HasKey(s.active_players, player)
    THEN [session |-> s,
          ret     |-> [ok |-> FALSE, text |-> "is already in the game", player |-> player]]
    ELSE LET s1 == [s EXCEPT
                      !.active_players    = OPut(@, player,
                                                 s.buy_in + Get(s.total_winnings, player, 0)),
                      !.total_winnings    = Put(@, player, Get(s.total_winnings, player, 0)),
                      !.player_join_game  = Put(@, player, s.game_count),
                      !.player_leave_game = Put(@, player, None),
                      !.win_counts        = Put(@, player, Get(s.win_counts, player, 0))]
             s2 == add_event(s1, "IN", player, <<"Joined">>, s.buy_in)
             total_prize == Len(s2.active_players) * s2.buy_in
         IN  [session |-> s2,
              ret     |-> [ok |-> TRUE, text |-> "joined the game with", player |-> player,
                           stack |-> s2.buy_in, total_prize |-> total_prize]]

add_player(s, player) ==
    IF HasKey(s.active_players, player)
    THEN [session |-> s,
          ret     |-> [ok |-> FALSE, text |-> "is already in the game", player |-> player]]
    ELSE LET s1 == [s EXCEPT
                      !.active_players    = OPut(@, player, s.buy_in),
                      !.total_winnings    = Put(@, player, Get(s.total_winnings, player, 0)),
                      !.player_join_game  = Put(@, player, s.game_count),
                      !.player_leave_game = Put(@, player, None),
                      !.win_counts        = Put(@, player, Get(s.win_counts, player, 0))]
             s2 == add_event(s1, "IN", player, <<"Joined">>, s.buy_in)
             total_prize == Len(s2.active_players) * s2.buy_in
         IN  [session |-> s2,
              ret     |-> [ok |-> TRUE, text |-> "joined the game with", player |-> player,
                           stack |-> s2.buy_in, total_prize |-> total_prize]]

(* --------------------------- remove_player ----------------------------- *)

\* remove_player that bookmarks the last game closed, not the game in progress
remove_player_leavesAtClosedGame(s, player) ==
    IF ~HasKey(s.active_players, player)
    THEN [session |-> s,
          ret     |-> [ok |-> FALSE, text |-> "is not in the game", player |-> player]]
    ELSE LET stack == StackOf(s.active_players, player)
             s1 == [s EXCEPT
                      !.active_players    = OPop(@, player),
                      !.player_leave_game = Put(@, player, Some(s.game_count - 1))]
             s2 == add_event(s1, "OUT", player, <<"Left">>, stack)
             total_prize == Len(s2.active_players) * s2.buy_in
         IN  [session |-> s2,
              ret     |-> [ok |-> TRUE, text |-> "left the game with", player |-> player,
                           stack |-> stack, total_prize |-> total_prize]]

\* remove_player that counts the pool before the player is taken out
remove_player_poolBeforePop(s, player) ==
    IF ~HasKey(s.active_players, player)
    THEN [session |-> s,
          ret     |-> [ok |-> FALSE, text |-> "is not in the game", player |-> player]]
    ELSE LET stack == StackOf(s.active_players, player)
             total_prize == Len(s.active_players) * s.buy_in
             s1 == [s EXCEPT
                      !.active_players    = OPop(@, player),
                      !.player_leave_game = Put(@, player, Some(s.game_count))]
             s2 == add_event(s1, "OUT", player, <<"Left">>, stack)
         IN  [session |-> s2,
              ret     |-> [ok |-> TRUE, text |-> "left the game with", player |-> player,
                           stack |-> stack, total_prize |-> total_prize]]

remove_player(s, player) ==
    IF ~HasKey(s.active_players, player)
    THEN [session |-> s,
          ret     |-> [ok |-> FALSE, text |-> "is not in the game", player |-> player]]
    ELSE LET stack == StackOf(s.active_players, player)
             s1 == [s EXCEPT
                      !.active_players    = OPop(@, player),
                      !.player_leave_game = Put(@, player, Some(s.game_count))]
             s2 == add_event(s1, "OUT", player, <<"Left">>, stack)
             total_prize == Len(s2.active_players) * s2.buy_in
         IN  [session |-> s2,
              ret     |-> [ok |-> TRUE, text |-> "left the game with", player |-> player,
                           stack |-> stack, total_prize |-> total_prize]]

(* ----------------------------- set_winner ------------------------------ *)

\* ResetLoop that labels the NEWGAME events with the game just closed
RECURSIVE ResetLoop_labelsClosedGame(_, _)
ResetLoop_labelsClosedGame(s, i) ==
    IF i > Len(s.active_players) THEN s
    ELSE LET player == s.active_players[i][1]
             s1 == [s EXCEPT !.active_players = OPut(@, player, s.buy_in)]
         IN  ResetLoop_labelsClosedGame(
                 add_event(s1, "NEWGAME", player, <<"Game #", s.game_count - 1>>, s.buy_in),
                 i + 1)

\* the loop of lines 84-86 over the entries i..Len(active_players)
RECURSIVE ResetLoop(_, _)
ResetLoop(s, i) ==
    IF i > Len(s.active_players) THEN s
    ELSE LET player == s.active_players[i][1]
             s1 == [s EXCEPT !.active_players = OPut(@, player, s.buy_in)]
         IN  ResetLoop(add_event(s1, "NEWGAME", player, <<"Game #", s.game_count>>, s.buy_in),
                       i + 1)

\* total_pool as a pot that carries over from game to game
total_pool_cumulative(s) == Len(s.active_players) * s.buy_in * s.game_count

\* a pool that everyone who ever joined pays into, whether still seated or not
total_pool_ofAllWhoJoined(s) == Cardinality(DOMAIN s.player_join_game) * s.buy_in

\* line 64: the pool of the game being closed
total_pool(s) == Len(s.active_players) * s.buy_in

\* the next game is never opened
start_next_game_forgotten(s) == s

\* the next game is numbered two past the game closed
start_next_game_skipsOne(s) == [s EXCEPT !.game_count = @ + 2]

\* line 81: self.game_count += 1
start_next_game(s) == [s EXCEPT !.game_count = @ + 1]

\* set_winner that accepts every player who ever joined
set_winner_ofAnyJoined(s, winner) ==
    IF winner \notin DOMAIN s.player_join_game
    THEN [session |-> s,
          ret     |-> [ok |-> FALSE, text |-> "is not in the game", player |-> winner]]
    ELSE LET pool == total_pool(s)
             s1 == [s EXCEPT
                      !.total_winnings = Put(@, winner, Get(s.total_winnings, winner, 0) + pool),
                      !.win_counts     = Put(@, winner, Get(s.win_counts, winner, 0) + 1)]
             s2 == add_event(s1, "WIN", winner, <<"Won Game #", s1.game_count>>, pool)
             s3 == start_next_game(s2)
             s4 == ResetLoop(s3, 1)
         IN  [session |-> s4,
              ret     |-> [ok |-> TRUE, text |-> "won Game #", player |-> winner,
                           game |-> s2.game_count, pool |-> pool,
                           wins |-> s2.win_counts[winner],
                           started |-> s4.game_count, reset_to |-> s4.buy_in,
                           players |-> Keys(s4.active_players)]]

\* set_winner that gives way to other callers once the next game is opened,
\* before the table is reset
set_winner_suspendedBeforeReset(s, winner) ==
    IF ~HasKey(s.active_players, winner)
    THEN [session |-> s,
          ret     |-> [ok |-> FALSE, text |-> "is not in the game", player |-> winner]]
    ELSE LET pool == total_pool(s)
             s1 == [s EXCEPT
                      !.total_winnings = Put(@, winner, Get(s.total_winnings, winner, 0) + pool),
                      !.win_counts     = Put(@, winner, Get(s.win_counts, winner, 0) + 1)]
             s2 == add_event(s1, "WIN", winner, <<"Won Game #", s1.game_count>>, pool)
             s3 == start_next_game(s2)
         IN  [session |-> s3,
              ret     |-> [ok |-> TRUE, text |-> "won Game #", player |-> winner,
                           game |-> s2.game_count, pool |-> pool,
                           wins |-> s2.win_counts[winner],
                           started |-> s3.game_count, reset_to |-> s3.buy_in,
                           players |-> Keys(s3.active_players)]]

\* set_winner that logs the winner's stack, not the pool, with the WIN event
set_winner_logsStack(s, winner) ==
    IF ~HasKey(s.active_players, winner)
    THEN [session |-> s,
          ret     |-> [ok |-> FALSE, text |-> "is not in the game", player |-> winner]]
    ELSE LET pool == total_pool(s)
             s1 == [s EXCEPT
                      !.total_winnings = Put(@, winner, Get(s.total_winnings, winner, 0) + pool),
                      !.win_counts     = Put(@, winner, Get(s.win_counts, winner, 0) + 1)]
             s2 == add_event(s1, "WIN", winner, <<"Won Game #", s1.game_count>>,
                             StackOf(s.active_players, winner))
             s3 == start_next_game(s2)
             s4 == ResetLoop(s3, 1)
         IN  [session |-> s4,
              ret     |-> [ok |-> TRUE, text |-> "won Game #", player |-> winner,
                           game |-> s2.game_count, pool |-> pool,
                           wins |-> s2.win_counts[winner],
                           started |-> s4.game_count, reset_to |-> s4.buy_in,
                           players |-> Keys(s4.active_players)]]

set_winner(s, winner) ==
    IF ~HasKey(s.active_players, winner)
    THEN [session |-> s,
          ret     |-> [ok |-> FALSE, text |-> "is not in the game", player |-> winner]]
    ELSE LET pool == total_pool(s)
             s1 == [s EXCEPT
                      !.total_winnings = Put(@, winner, Get(s.total_winnings, winner, 0) + pool),
                      !.win_counts     = Put(@, winner, Get(s.win_counts, winner, 0) + 1)]
             s2 == add_event(s1, "WIN", winner, <<"Won Game #", s1.game_count>>, pool)
             s3 == start_next_game(s2)
             s4 == ResetLoop(s3, 1)
         IN  [session |-> s4,
              ret     |-> [ok |-> TRUE, text |-> "won Game #", player |-> winner,
                           game |-> s2.game_count, pool |-> pool,
                           wins |-> s2.win_counts[winner],
                           started |-> s4.game_count, reset_to |-> s4.buy_in,
                           players |-> Keys(s4.active_players)]]

(* ------------------------------ queries -------------------------------- *)

get_player_games_played(s, player) ==
    LET join_game  == Get(s.player_join_game, player, s.game_count)
        leave_game == Get(s.player_leave_game, player, None)
    IN  IF leave_game = None
        THEN s.game_count - join_game
        ELSE Val(leave_game) - join_game

\* the text of "Net P/L": a sign prefix and the digits printed after it
FormatPnl(pnl) ==
    IF pnl > 0 THEN <<"+$", pnl>>
    ELSE IF pnl < 0 THEN <<"-$", -pnl>>
    ELSE <<"$0">>

\* the block of lines printed for player p (lines 123-138)
PnlBlock(s, p) ==
    LET games_played == get_player_games_played(s, p)
        total_buyin  == s.buy_in * games_played
        winnings     == Get(s.total_winnings, p, 0)
        pnl          == winnings - total_buyin
        wins         == Get(s.win_counts, p, 0)
    IN  [status       |-> IF HasKey(s.active_players, p) THEN "active" ELSE "inactive",
         games_played |-> games_played,
         games_won    |-> wins,
         total_buyin  |-> total_buyin,
         total_won    |-> winnings,
         net          |-> FormatPnl(pnl)]

\* get_player_pnl that looks only at the players at the table
get_player_pnl_ofActiveOnly(s, player) ==
    LET all_players == {s.active_players[i][1] : i \in 1..Len(s.active_players)}
        shown   == {p \in all_players : ~(Truthy(player) /\ p # Val(player))}
        results == [p \in shown |-> PnlBlock(s, p)]
    IN  IF shown = {}
        THEN [ok |-> FALSE, text |-> "not found", player |-> player]
        ELSE [ok |-> TRUE, games |-> s.game_count - 1, results |-> results]

\* player is an optional name; the blocks are keyed by player because the
\* loop runs over set(keys), whose order is not fixed
get_player_pnl(s, player) ==
    LET all_players == DOMAIN s.player_join_game
        shown   == {p \in all_players : ~(Truthy(player) /\ p # Val(player))}
        results == [p \in shown |-> PnlBlock(s, p)]
    IN  IF shown = {}
        THEN [ok |-> FALSE, text |-> "not found", player |-> player]
        ELSE [ok |-> TRUE, games |-> s.game_count - 1, results |-> results]

\* get_final_results that counts the winnings into the final stack
get_final_results_withWinnings(s) ==
    LET listed == {s.initial_players[i] : i \in 1..Len(s.initial_players)}
                    \cup {s.active_players[i][1] : i \in 1..Len(s.active_players)}
    IN  { LET final_stack == (IF HasKey(s.active_players, player)
                              THEN StackOf(s.active_players, player) ELSE 0)
                             + Get(s.total_winnings, player, 0)
          IN  [name |-> player, buy_in |-> s.buy_in, rebuys |-> 0,
               final_stack |-> final_stack, pnl |-> final_stack - s.buy_in]
          : player \in listed }

\* one record per player of set(initial_players) | set(active_players.keys())
get_final_results(s) ==
    LET listed == {s.initial_players[i] : i \in 1..Len(s.initial_players)}
                    \cup {s.active_players[i][1] : i \in 1..Len(s.active_players)}
    IN  { LET final_stack == IF HasKey(s.active_players, player)
                             THEN StackOf(s.active_players, player) ELSE 0
          IN  [name |-> player, buy_in |-> s.buy_in, rebuys |-> 0,
               final_stack |-> final_stack, pnl |-> final_stack - s.buy_in]
          : player \in listed }

get_session_info(s) ==
    [date            |-> s.date,
     buy_in          |-> s.buy_in,
     initial_players |-> s.initial_players,
     current_game    |-> <<"Game #", s.game_count>>,
     total_pool      |-> SumStacks(s.active_players)]

get_tracking_data(s) == s.events

\* the display line of one event (lines 193-204)
EventLine(s, e) ==
    LET event_type == e[2]
        player     == e[3]
        action     == e[4]
        stack      == e[5]
    IN  IF event_type = "JOIN" THEN <<"joined with", player, stack>>
        ELSE IF event_type = "IN" THEN <<"bought in with", player, stack>>
        ELSE IF event_type = "OUT" THEN <<"left the game", player>>
        ELSE IF event_type = "WIN"
             THEN <<"win", player, action, stack, Get(s.win_counts, player, 0)>>
        ELSE <<"started", action, stack>>

format_events(s) ==
    IF s.events = <<>>
    THEN [text |-> "No events in current session"]
    ELSE [text      |-> "Session Events",
          date      |-> s.date,
          buy_in    |-> s.buy_in,
          game      |-> s.game_count,
          active    |-> Len(s.active_players),
          pool      |-> Len(s.active_players) * s.buy_in,
          players   |-> Keys(s.active_players),
          lines     |-> [i \in 1..Len(s.events) |-> EventLine(s, s.events[i])]]

(* ----------------------------- state ----------------------------------- *)

VARIABLES
    session,    \* the GameSession object
    last,       \* the call made last: its name, its argument, what it returned
                \* (a value that is not a record of its own is held as [value |-> v])
    heap,       \* the GameSession objects the Discord bot has constructed, by identity
    active_sessions,   \* PokerPal.active_sessions: channel id -> session object
    tasks,      \* the running invocations of Commands.po, one coroutine each
    received,   \* the number of commands received so far
    pokerbot,   \* the PokerBot object of the RocketChat bot (src/poker_bot.py)
    world       \* what surrounds it: the websocket, the main thread, what has
                \* been received and done so far

ledgerVars == <<session, last>>
botVars == <<heap, active_sessions, tasks, received>>
rocketVars == <<pokerbot, world>>
vars == <<session, last, heap, active_sessions, tasks, received, pokerbot, world>>

\* channel ids the commands arrive on
Channels == {1, 2}
\* the coroutines of po that can be in flight together
MaxTasks == 2
Tasks == 1..MaxTasks
\* the commands received in one run
MaxCommands == 3

\* a coroutine that is not running; out keeps what its last run sent
IdleTask == [pc |-> "idle", cmd |-> [name |-> ""], session |-> None, out |-> <<>>]

\* the bot before its first command (line 31: active_sessions = {})
BotIdle ==
    /\ heap = <<>>
    /\ active_sessions = [c \in Channels |-> None]
    /\ tasks = [t \in Tasks |-> IdleTask]
    /\ received = 0

\* PokerBot() (lines 41-51), before start() is called
RocketNew ==
    /\ pokerbot = [ws_connected       |-> FALSE,
                   is_logged_in       |-> FALSE,
                   is_subscribed      |-> FALSE,
                   processed_messages |-> {}]
    /\ world = [link    |-> "none",     \* the websocket: none, connecting, open,
                                        \* dropped (by the server or the network),
                                        \* closed (by ws.close())
                main    |-> "new",      \* the main thread: new, running, stopped
                                        \* (connection reported lost), interrupted
                frames  |-> 0,          \* the frames received
                seen    |-> {},         \* which of "connected", "login ok" and
                                        \* "ready" were among them
                handled |-> [i \in {"m1", "m2", "m3"} |-> 0],
                                        \* how often process_message was called
                                        \* for each message id
                step    |-> [frame |-> [kind |-> "none"], did |-> << >>]]
                                        \* the last frame and what on_message did

Call(op, arg, r) ==
    /\ session' = r.session
    /\ last' = [op |-> op, arg |-> arg, ret |-> r.ret]
    /\ UNCHANGED botVars
    /\ UNCHANGED rocketVars

\* lists of 1..MaxInit names, repetitions included
PlayerLists == UNION {[1..n -> Players] : n \in 1..MaxInit}

Init ==
    \E buy_in \in BuyIns, players \in PlayerLists, date \in Dates :
        /\ session = NewSession(buy_in, players, date)
        /\ last = [op |-> "__init__", arg |-> None, ret |-> [value |-> None]]
        /\ BotIdle
        /\ RocketNew

AddPlayer ==
    \E player \in Players :
        LET r == add_player(session, player) IN
        /\ Len(r.session.events) <= MaxEvents
        /\ Call("add_player", Some(player), r)

RemovePlayer ==
    \E player \in Players :
        LET r == remove_player(session, player) IN
        /\ Len(r.session.events) <= MaxEvents
        /\ Call("remove_player", Some(player), r)

\* the win command may pass any text, the empty string included
WinnerArgs == Players \cup {""}

SetWinner ==
    \E winner \in WinnerArgs :
        LET r == set_winner(session, winner) IN
        /\ Len(r.session.events) <= MaxEvents
        /\ r.session.game_count <= MaxGames
        /\ Call("set_winner", Some(winner), r)

\* no name, the empty name, or a name
PnlArgs == {None} \cup {Some(n) : n \in Players \cup {""}}

\* a query that reads the stacks with setdefault(player, 0), not get(player, 0),
\* and so seats every initial player who has left
Query_setdefault(op, arg, ret) ==
    Call(op, arg,
         [session |-> [session EXCEPT !.active_players =
                          @ \o DictComp(SelectSeq(session.initial_players,
                                                  LAMBDA p : ~HasKey(session.active_players, p)),
                                        0)],
          ret     |-> ret])

\* a query: the session stays as it is, the value is returned
Query(op, arg, ret) == Call(op, arg, [session |-> session, ret |-> ret])

GetPlayerPnl ==
    \E player \in PnlArgs :
        Query("get_player_pnl", player, get_player_pnl(session, player))

GetFinalResults ==
    Query("get_final_results", None, [value |-> get_final_results(session)])

GetSessionInfo == Query("get_session_info", None, get_session_info(session))

GetTrackingData ==
    Query("get_tracking_data", None, [value |-> get_tracking_data(session)])

FormatEvents == Query("format_events", None, format_events(session))

Next ==
    \/ AddPlayer
    \/ RemovePlayer
    \/ SetWinner
    \/ GetPlayerPnl
    \/ GetFinalResults
    \/ GetSessionInfo
    \/ GetTrackingData
    \/ FormatEvents

Spec == Init /\ [][Next]_vars

(***************************************************************************)
(* The Discord command dispatcher, src/discord_poker_bot.py (Commands.po). *)
(*                                                                         *)
(* Every message starts a coroutine of po.  A coroutine runs alone from    *)
(* one await of ctx.send to the next, so an action is the code between two *)
(* such awaits; the message is logged in the coroutine's out when the      *)
(* await is reached.  The Google Sheets calls are blocking calls without   *)
(* an await; whether they succeed is not decided by the bot.  A command is *)
(* [name |-> args[0].lower(), channel |-> ctx.channel.id, nargs |->        *)
(* len(args), amount |-> what float(args[1]) gives ({} when it raises      *)
(* ValueError), pieces |-> the stripped pieces of the player list, text    *)
(* |-> ' '.join(args[1:]).strip(), now |-> the calendar day].  An object   *)
(* of the heap is a GameSession: its ledger, and has_sheet_name, what      *)
(* hasattr(session, 'sheet_name') gives.                                   *)
(***************************************************************************)

\* what a coroutine did to the outside, in order
Say(kind) == [io |-> "send", kind |-> kind]
Reply(kind, ret) == [io |-> "send", kind |-> kind, ret |-> ret]
Sheet(kind, outcome) == [io |-> "sheet", kind |-> kind, outcome |-> outcome]
Raise(kind) == [io |-> "raise", kind |-> kind]

NoSessionMsg == Say("No active game session")

Command(name, channel, nargs, amount, pieces, text, now) ==
    [name |-> name, channel |-> channel, nargs |-> nargs, amount |-> amount,
     pieces |-> pieces, text |-> text, now |-> now]

\* buy-in texts that float() accepts, by their value
BotBuyIns == {-1, 0, 2}
\* player lists as typed: "A" and "A, ,B"
BotPieces == {<<"A">>, <<"A", "", "B">>}

StartCommands(c, now) ==
    {Command("start", c, 2, None, <<>>, "", now),
     Command("start", c, 3, None, <<"A">>, "", now),
     Command("start", c, 3, Some(2), <<"">>, "", now)}
    \cup {Command("start", c, 3, Some(b), ps, "", now) : b \in BotBuyIns, ps \in BotPieces}

NameCommands(c, now) ==
    {Command(name, c, 2, None, <<>>, text, now) :
        name \in {"in", "out", "win", "pnl"}, text \in Players \cup {""}}
    \cup {Command(name, c, 1, None, <<>>, "", now) : name \in {"in", "out", "win", "pnl"}}

PlainCommands(c, now) ==
    {Command(name, c, 1, None, <<>>, "", now) : name \in {"help", "events", "end", "deal"}}
    \cup {Command("", c, 0, None, <<>>, "", now)}

Commands(c, now) == StartCommands(c, now) \cup NameCommands(c, now) \cup PlainCommands(c, now)

\* the state a stretch of po leaves behind: its coroutine, the objects, the map
Left(task, h, act) == [task |-> task, heap |-> h, active |-> act]

Running(cmd, pc, sess, out) == [pc |-> pc, cmd |-> cmd, session |-> sess, out |-> out]

\* a method call that lands on every session the bot holds
OnObject_ofAnyChannel(h, id, r) == [i \in 1..Len(h) |-> [h[i] EXCEPT !.ledger = r.session]]

\* session.<method>(...) on the object id of the heap h
OnObject(h, id, r) == [h EXCEPT ![id].ledger = r.session]

\* a handler that goes on to the sheet update whatever the ledger returned
after_reply_always(success) == "sync"

\* lines 186, 206, 221 (if success:): where the handler goes after its reply
after_reply(success) == IF success THEN "sync" ELSE "idle"

\* lines 167-242: the commands that need a session
po_rest(cmd, h, act, out) ==
    LET sess == act[cmd.channel]
        id   == Val(sess)
        s    == h[id].ledger
        done(o) == Left(Running(cmd, "idle", sess, out \o o), h, act)
        mutate(kind, r) ==
            Left(Running(cmd, after_reply(r.ret.ok), sess,
                         Append(out, Reply(kind, r.ret))),
                 OnObject(h, id, r), act)
    IN  IF sess = None THEN done(<<NoSessionMsg>>)
        ELSE IF cmd.name = "in" THEN
            IF cmd.nargs < 2 \/ cmd.text = "" THEN done(<<Say("Invalid command")>>)
            ELSE mutate("in", add_player(s, cmd.text))
        ELSE IF cmd.name = "out" THEN
            IF cmd.nargs < 2 \/ cmd.text = "" THEN done(<<Say("Invalid command")>>)
            ELSE mutate("out", remove_player(s, cmd.text))
        ELSE IF cmd.name = "win" THEN
            IF cmd.nargs < 2 THEN done(<<Say("Invalid command")>>)
            ELSE mutate("win", set_winner(s, cmd.text))
        ELSE IF cmd.name = "pnl" THEN
            done(<<Reply("pnl", get_player_pnl(s, IF cmd.nargs > 1 THEN Some(cmd.text) ELSE None))>>)
        ELSE IF cmd.name = "end" THEN
            LET r == get_player_pnl(s, None) IN
            IF r.ok
            THEN Left(Running(cmd, "end_del", sess, Append(out, Reply("Final Session Results", r))),
                      h, act)
            ELSE Left(Running(cmd, "idle", sess, Append(out, Say("Session ended"))),
                      h, [act EXCEPT ![cmd.channel] = None])
        ELSE done(<<>>)

\* lines 137-150: construct the session, register it, announce it
start_install(cmd, h, act, out) ==
    LET buy_in  == Val(cmd.amount)
        players == SelectSeq(cmd.pieces, LAMBDA p : p # "")
        h2      == Append(h, [ledger |-> NewSession(buy_in, players, cmd.now),
                              has_sheet_name |-> FALSE])
    IN  Left(Running(cmd, "start_sheet", Some(Len(h2)),
                     Append(out, [io |-> "send", kind |-> "New Poker Session Started",
                                  buy_in |-> buy_in, players |-> players,
                                  total_prize |-> Len(players) * buy_in])),
             h2, [act EXCEPT ![cmd.channel] = Some(Len(h2))])

\* a start that takes the old session off the channel before it looks at
\* the player list
start_begin_deletesFirst(cmd, h, act) ==
    LET c == cmd.channel
        done(o) == Left(Running(cmd, "idle", None, <<o>>), h, act)
    IN  IF cmd.nargs < 3 THEN done(Say("Invalid start command"))
        ELSE IF cmd.amount = None THEN done(Say("Invalid buy-in amount"))
        ELSE IF SelectSeq(cmd.pieces, LAMBDA p : p # "") = <<>>
             THEN Left(Running(cmd, "idle", None, <<Say("No valid players provided")>>),
                       h, [act EXCEPT ![c] = None])
        ELSE IF act[c] # None THEN
            LET r == get_player_pnl(h[Val(act[c])].ledger, None) IN
            IF r.ok
            THEN Left(Running(cmd, "start_del", act[c],
                              <<Reply("Final Results of Previous Session", r)>>), h, act)
            ELSE start_install(cmd, h, [act EXCEPT ![c] = None], <<>>)
        ELSE start_install(cmd, h, act, <<>>)

\* lines 114-135: the start command up to its first await
start_begin(cmd, h, act) ==
    LET c == cmd.channel
        done(o) == Left(Running(cmd, "idle", None, <<o>>), h, act)
    IN  IF cmd.nargs < 3 THEN done(Say("Invalid start command"))
        ELSE IF cmd.amount = None THEN done(Say("Invalid buy-in amount"))
        ELSE IF SelectSeq(cmd.pieces, LAMBDA p : p # "") = <<>>
             THEN done(Say("No valid players provided"))
        ELSE IF act[c] # None THEN
            LET r == get_player_pnl(h[Val(act[c])].ledger, None) IN
            IF r.ok
            THEN Left(Running(cmd, "start_del", act[c],
                              <<Reply("Final Results of Previous Session", r)>>), h, act)
            ELSE start_install(cmd, h, [act EXCEPT ![c] = None], <<>>)
        ELSE start_install(cmd, h, act, <<>>)

\* lines 95-171: po from its call to its first await
po_begin(cmd, h, act) ==
    LET c == cmd.channel
        done(o) == Left(Running(cmd, "idle", None, <<o>>), h, act)
    IN  IF cmd.nargs = 0 THEN done(Say("Invalid command"))
        ELSE IF cmd.name = "help" THEN done(Say("help"))
        ELSE IF cmd.name \in {"events", "event"} THEN
            IF act[c] = None THEN done(NoSessionMsg)
            ELSE Left(Running(cmd, "idle", act[c],
                              <<Reply("events", format_events(h[Val(act[c])].ledger))>>), h, act)
        ELSE IF cmd.name = "start" THEN start_begin(cmd, h, act)
        ELSE po_rest(cmd, h, act, <<>>)

\* the coroutine t goes on to what the stretch left
Become(t, left) ==
    /\ tasks' = [tasks EXCEPT ![t] = left.task]
    /\ heap' = left.heap
    /\ active_sessions' = left.active
    /\ UNCHANGED ledgerVars
    /\ UNCHANGED rocketVars

\* a message arrives and its coroutine runs to its first await; the channels
\* are numbered in the order of their first message
Receive ==
    \E t \in Tasks, c \in Channels, now \in Dates :
        \E cmd \in Commands(c, now) :
            /\ received < MaxCommands
            /\ c <= received + 1
            /\ tasks[t].pc = "idle"
            /\ \A u \in Tasks : u < t => tasks[u].pc # "idle"
            /\ received' = received + 1
            /\ Become(t, po_begin(cmd, heap, active_sessions))

\* line 135 after the await of line 134, then lines 137-150
StartDelete ==
    \E t \in Tasks :
        LET task == tasks[t] c == task.cmd.channel IN
        /\ task.pc = "start_del"
        /\ UNCHANGED received
        /\ IF active_sessions[c] = None
           THEN \* KeyError, caught at line 162
                Become(t, Left([task EXCEPT !.pc = "idle",
                                            !.out = Append(@, Say("An error occurred while starting"))],
                               heap, active_sessions))
           ELSE Become(t, start_install(task.cmd, heap,
                                        [active_sessions EXCEPT ![c] = None], task.out))

\* what the Sheets API does to create_session_sheet: it works, it fails
\* before the sheet name is stored in the session (line 298), or after
CreateOutcomes == {"ok", "failed before name", "failed after name"}

\* lines 152-157 with create_session_sheet up to its await of lines 534-540
StartSheet ==
    \E t \in Tasks, outcome \in CreateOutcomes :
        LET task == tasks[t]
            id   == Val(task.session)
            h2   == IF outcome = "failed before name" THEN heap
                    ELSE [heap EXCEPT ![id].has_sheet_name = TRUE]
            out2 == Append(task.out, Sheet("create", outcome))
        IN  /\ task.pc = "start_sheet"
            /\ UNCHANGED received
            /\ IF outcome = "ok"
               THEN Become(t, po_rest(task.cmd, h2, active_sessions, out2))
               ELSE Become(t, Left([task EXCEPT !.pc = "start_warn",
                                                !.out = Append(out2, Say("Error creating game sheet"))],
                                   h2, active_sessions))

\* line 541 re-raises; lines 155-157 warn
StartWarn ==
    \E t \in Tasks :
        LET task == tasks[t] IN
        /\ task.pc = "start_warn"
        /\ UNCHANGED received
        /\ Become(t, Left([task EXCEPT !.pc = "start_tail",
                                       !.out = Append(@, Say("Warning: Failed to save to spreadsheet"))],
                          heap, active_sessions))

\* after the warning po goes on at line 167
StartTail ==
    \E t \in Tasks :
        LET task == tasks[t] IN
        /\ task.pc = "start_tail"
        /\ UNCHANGED received
        /\ Become(t, po_rest(task.cmd, heap, active_sessions, task.out))

\* what the Sheets API does to update_session_sheet
UpdateOutcomes == {"ok", "failed"}

\* a sheet update that takes the session off the channel when it fails
SheetSync_dropsSession ==
    \E t \in Tasks, outcome \in UpdateOutcomes :
        LET task == tasks[t]
            id   == Val(task.session)
            res  == IF ~heap[id].has_sheet_name THEN "no sheet name" ELSE outcome
            out2 == Append(task.out, Sheet("update", res))
        IN  /\ task.pc = "sync"
            /\ UNCHANGED received
            /\ Become(t, Left([task EXCEPT !.pc = "idle",
                                           !.out = IF res = "ok" THEN out2
                                                   ELSE Append(out2, Say("Error updating game sheet"))],
                              heap,
                              IF res = "ok" THEN active_sessions
                              ELSE [active_sessions EXCEPT ![task.cmd.channel] = None]))

\* update_session_sheet (lines 592-622) after the await of the reply
SheetSync ==
    \E t \in Tasks, outcome \in UpdateOutcomes :
        LET task == tasks[t]
            id   == Val(task.session)
            res  == IF ~heap[id].has_sheet_name THEN "no sheet name" ELSE outcome
            out2 == Append(task.out, Sheet("update", res))
        IN  /\ task.pc = "sync"
            /\ UNCHANGED received
            /\ Become(t, Left([task EXCEPT !.pc = "idle",
                                           !.out = IF res = "ok" THEN out2
                                                   ELSE Append(out2, Say("Error updating game sheet"))],
                              heap, active_sessions))

\* lines 241-242 after the await of line 240
EndDelete ==
    \E t \in Tasks :
        LET task == tasks[t] c == task.cmd.channel IN
        /\ task.pc = "end_del"
        /\ UNCHANGED received
        /\ IF active_sessions[c] = None
           THEN \* KeyError, not caught in po
                Become(t, Left([task EXCEPT !.pc = "idle", !.out = Append(@, Raise("KeyError"))],
                               heap, active_sessions))
           ELSE Become(t, Left([task EXCEPT !.pc = "idle", !.out = Append(@, Say("Session ended"))],
                               heap, [active_sessions EXCEPT ![c] = None]))

BotInit ==
    /\ session = [unused |-> TRUE]
    /\ last = [unused |-> TRUE]
    /\ BotIdle
    /\ RocketNew

BotNext ==
    \/ Receive
    \/ StartDelete
    \/ StartSheet
    \/ StartWarn
    \/ StartTail
    \/ SheetSync
    \/ EndDelete

SpecBot == BotInit /\ [][BotNext]_vars

(***************************************************************************)
(* The RocketChat bot, src/poker_bot.py (PokerBot).                        *)
(*                                                                         *)
(* start() runs two threads: the websocket thread, which calls on_message  *)
(* for every frame the server sends, and the main thread, which looks at   *)
(* ws_connected once a second.  The server is not bound to the protocol:   *)
(* while the socket is open it may send any frame at any time, and the     *)
(* same chat message any number of times.  A frame is what json.loads      *)
(* makes of it, reduced to the keys on_message reads.                      *)
(***************************************************************************)

\* line 51, max_processed_messages = 1000, scaled down to the ids of the model
max_processed_messages == 2
\* the frames received on one connection
MaxFrames == 6

\* the chat messages of the room: '_id' and 'msg'
Messages == {[_id |-> "m1", msg |-> "!ping"],
             [_id |-> "m2", msg |-> "!po 5 2 A"],
             [_id |-> "m3", msg |-> "hello"]}

Frames ==
    {[kind |-> k] : k \in {"invalid json", "server_id", "connected", "ready", "ping"}}
    \cup {[kind |-> "result", id |-> i, result |-> r] :
             i \in {"login-1", "method-1"}, r \in BOOLEAN}
    \cup {[kind |-> "changed", collection |-> "stream-room-messages", message |-> m] :
             m \in Messages}
    \cup {[kind |-> "changed", collection |-> "stream-notify-user",
           message |-> [_id |-> "m1", msg |-> "!ping"]]}

\* one thing on_message did; id is the chat message it was done for, if any
Did(act, id) == [act |-> act, id |-> id]

\* msg_content.startswith('!')
StartsWithBang(content) == content \in {"!ping", "!po 5 2 A", "!po"}

\* id.startswith('login-')
IsLoginId(id) == id \in {"login-1"}

\* parse_command (lines 184-196): the pattern matches
parse_command(message) == IF message = "!po 5 2 A" THEN Some(<<5, 2, "A">>) ELSE None

\* process_message (lines 344-367) and the reply of lines 524-528;
\* save_ok tells whether save_game returns or raises
process_message(id, message, save_ok) ==
    IF message = "!ping" THEN <<Did("reply", id)>>
    ELSE IF parse_command(message) = None THEN <<Did("no response", id)>>
    ELSE <<Did("acknowledge", id),
           Did(IF save_ok THEN "save_game" ELSE "save_game raises", id),
           Did("reply", id)>>

\* what a call of on_message leaves: the object and what was done, in order
Handled(bot, did) == [bot |-> bot, did |-> did]

\* lines 496-528: a message of the room
on_room_message_withoutGate(bot, m, save_ok) ==
    IF m._id \in bot.processed_messages
    THEN Handled(bot, << >>)
    ELSE LET added == bot.processed_messages \cup {m._id}
             kept == IF Cardinality(added) > max_processed_messages THEN {} ELSE added
             b == [bot EXCEPT !.processed_messages = kept]
         IN  IF StartsWithBang(m.msg)
             THEN Handled(b, <<Did("process_message", m._id)>>
                                \o process_message(m._id, m.msg, save_ok))
             ELSE Handled(b, << >>)
on_room_message(bot, m, save_ok) ==
    IF ~bot.is_logged_in \/ ~bot.is_subscribed
    THEN Handled(bot, << >>)
    ELSE IF m._id \in bot.processed_messages
    THEN Handled(bot, << >>)
    ELSE LET added == bot.processed_messages \cup {m._id}
             kept == IF Cardinality(added) > max_processed_messages THEN {} ELSE added
             b == [bot EXCEPT !.processed_messages = kept]
         IN  IF StartsWithBang(m.msg)
             THEN Handled(b, <<Did("process_message", m._id)>>
                                \o process_message(m._id, m.msg, save_ok))
             ELSE Handled(b, << >>)

\* lines 479-489: the result of a method call
on_result(bot, data) ==
    IF ~IsLoginId(data.id) THEN Handled(bot, << >>)
    ELSE IF data.result
    THEN Handled([bot EXCEPT !.is_logged_in = TRUE], <<Did("subscribe_to_room", "")>>)
    ELSE Handled([bot EXCEPT !.is_logged_in = FALSE], << >>)

\* on_message (lines 455-535)
on_message(bot, data, save_ok) ==
    CASE data.kind = "invalid json" -> Handled(bot, << >>)
      [] data.kind = "server_id" -> Handled(bot, <<Did("send connect", "")>>)
      [] data.kind = "connected" ->
            Handled([bot EXCEPT !.ws_connected = TRUE], <<Did("send_login", "")>>)
      [] data.kind = "result" -> on_result(bot, data)
      [] data.kind = "ready" -> Handled([bot EXCEPT !.is_subscribed = TRUE], << >>)
      [] data.kind = "changed" /\ data.collection = "stream-room-messages" ->
            on_room_message(bot, data.message, save_ok)
      [] OTHER -> Handled(bot, << >>)

\* what a frame adds to the history of the connection
FrameTag(data) ==
    IF data.kind = "connected" THEN {"connected"}
    ELSE IF data.kind = "ready" THEN {"ready"}
    ELSE IF data.kind = "result" /\ IsLoginId(data.id) /\ data.result THEN {"login ok"}
    ELSE {}

\* the ids process_message was called for, counted
CountHandled(handled, did) ==
    [i \in DOMAIN handled |->
        handled[i] + Cardinality({k \in 1..Len(did) : did[k] = Did("process_message", i)})]

\* start() up to the loop (lines 549-563): the websocket thread is started
Start ==
    /\ world.main = "new"
    /\ world' = [world EXCEPT !.main = "running", !.link = "connecting"]
    /\ UNCHANGED <<pokerbot, ledgerVars, botVars>>

\* run_forever (line 560): the socket opens
WsOpen ==
    /\ world.link = "connecting"
    /\ world' = [world EXCEPT !.link = "open"]
    /\ UNCHANGED <<pokerbot, ledgerVars, botVars>>

\* the websocket thread receives a frame and calls on_message (lines 544-547)
Deliver ==
    \E data \in Frames, save_ok \in BOOLEAN :
        LET r == on_message(pokerbot, data, save_ok) IN
        /\ world.link = "open"
        /\ world.frames < MaxFrames
        /\ save_ok \/ \E k \in 1..Len(r.did) : r.did[k].act = "save_game raises"
        /\ pokerbot' = r.bot
        /\ world' = [world EXCEPT !.frames = @ + 1,
                                  !.seen = @ \cup FrameTag(data),
                                  !.handled = CountHandled(@, r.did),
                                  !.step = [frame |-> data, did |-> r.did]]
        /\ UNCHANGED <<ledgerVars, botVars>>

\* the connection is lost: run_forever returns and the websocket thread ends;
\* no on_close or on_error handler is installed (lines 544-547)
Drop ==
    /\ world.link \in {"connecting", "open"}
    /\ world' = [world EXCEPT !.link = "dropped"]
    /\ UNCHANGED <<pokerbot, ledgerVars, botVars>>

\* one turn of the loop of start() (lines 565-570) and, on break, the finally
\* clause (lines 574-576)
MainTick ==
    /\ world.main = "running"
    /\ IF ~pokerbot.ws_connected
       THEN world' = [world EXCEPT !.main = "stopped",
                                   !.link = IF @ = "dropped" THEN @ ELSE "closed"]
       ELSE UNCHANGED world
    /\ UNCHANGED <<pokerbot, ledgerVars, botVars>>

\* KeyboardInterrupt in the loop (lines 571-576)
Interrupt ==
    /\ world.main = "running"
    /\ world' = [world EXCEPT !.main = "interrupted",
                              !.link = IF @ = "dropped" THEN @ ELSE "closed"]
    /\ UNCHANGED <<pokerbot, ledgerVars, botVars>>

RocketInit ==
    /\ session = [unused |-> TRUE]
    /\ last = [unused |-> TRUE]
    /\ BotIdle
    /\ RocketNew

RocketNext ==
    \/ Start
    \/ WsOpen
    \/ Deliver
    \/ Drop
    \/ MainTick
    \/ Interrupt

SpecRocket == RocketInit /\ [][RocketNext]_vars

(* ------------------- vocabulary of the properties ---------------------- *)

\* the step just taken was a call of op that returned success / failure
Succeeded(op) == last'.op = op /\ last'.ret.ok
Failed(op) == last'.op = op /\ ~last'.ret.ok

\* the state is the one a call of op has just returned to
After(op) == last.op = op
AfterSuccess(op) == last.op = op /\ last.ret.ok
AfterFailure(op) == last.op = op /\ ~last.ret.ok

\* the set of names of a list / of the roster
NamesOf(list) == {list[i] : i \in 1..Len(list)}
Active(s) == NamesOf(Keys(s.active_players))

\* every entry of the dict d other than n's is the same in e
SameButFor(d, e, n) ==
    /\ (DOMAIN e) \ {n} = (DOMAIN d) \ {n}
    /\ \A q \in (DOMAIN d) \ {n} : e[q] = d[q]

\* the events of type ty that name player p, as indices into the log
EventsOf(s, ty, p) == {i \in 1..Len(s.events) : s.events[i][2] = ty /\ s.events[i][3] = p}

(* ------------------------------- C1 ------------------------------------ *)

\* C1: a successful set_winner(p) adds exactly 1 to win_counts[p], exactly
\* buy_in * (number of active players at the call) to total_winnings[p] and
\* exactly 1 to game_count; afterwards every active stack equals buy_in; the
\* set of active players and every other player's total_winnings and
\* win_counts are unchanged; the reported pool is that of the roster at the
\* call, whatever was won in earlier games.
C1_SetWinnerEffect ==
    [][Succeeded("set_winner") =>
        LET p == Val(last'.arg)
            n == Len(session.active_players)
        IN  /\ HasKey(session.active_players, p)
            /\ session'.win_counts[p] = session.win_counts[p] + 1
            /\ session'.total_winnings[p] = session.total_winnings[p] + session.buy_in * n
            /\ session'.game_count = session.game_count + 1
            /\ \A i \in 1..Len(session'.active_players) :
                   session'.active_players[i][2] = session'.buy_in
            /\ session'.buy_in = session.buy_in
            /\ Active(session') = Active(session)
            /\ SameButFor(session.total_winnings, session'.total_winnings, p)
            /\ SameButFor(session.win_counts, session'.win_counts, p)
            /\ last'.ret.pool = session.buy_in * n
    ]_vars

\* a second game won by a player who already held winnings, on a roster
\* that differs in size from the roster of the first game
C1_Witness ==
    /\ AfterSuccess("set_winner")
    /\ session.game_count = 3
    /\ last.ret.pool > 0
    /\ session.total_winnings[last.ret.player] > last.ret.pool
    /\ session.total_winnings[last.ret.player] # 2 * last.ret.pool

(* ------------------------------- C2 ------------------------------------ *)

Distinct(list) == \A i, j \in 1..Len(list) : list[i] = list[j] => i = j

\* C2: a session created with buy_in > 0 and a non-empty list of distinct
\* names has game_count = 1; every listed player has stack buy_in, winnings
\* 0, win count 0, join index 1 and no leave index; the log is exactly one
\* JOIN event per listed player, in list order, labelled "Initial" with
\* stack buy_in.
C2_Create ==
    (After("__init__") /\ session.buy_in > 0 /\ Distinct(session.initial_players)) =>
        LET players == session.initial_players IN
        /\ Len(players) > 0
        /\ session.game_count = 1
        /\ Keys(session.active_players) = players
        /\ \A p \in NamesOf(players) :
              /\ StackOf(session.active_players, p) = session.buy_in
              /\ session.total_winnings[p] = 0
              /\ session.win_counts[p] = 0
              /\ session.player_join_game[p] = 1
              /\ session.player_leave_game[p] = None
        /\ session.events =
              [i \in 1..Len(players) |->
                  <<session.date, "JOIN", players[i], <<"Initial">>, session.buy_in>>]

\* a fresh session of two different players with a positive buy-in
C2_Witness ==
    /\ After("__init__")
    /\ session.buy_in > 0
    /\ Len(session.initial_players) = 2
    /\ Distinct(session.initial_players)
(* ------------------------------- C3 ------------------------------------ *)

\* the number a "Net P/L" text stands for
NetValue(net) ==
    IF net[1] = "+$" THEN net[2] ELSE IF net[1] = "-$" THEN 0 - net[2] ELSE 0

\* what C3 says the summary shows for player p
PnlFiguresRight(s, p, block) ==
    LET leave == s.player_leave_game[p]
        games_played == (IF leave # None THEN Val(leave) ELSE s.game_count)
                            - s.player_join_game[p]
    IN  /\ block.games_played = games_played
        /\ block.total_buyin = s.buy_in * games_played
        /\ NetValue(block.net) = s.total_winnings[p] - s.buy_in * games_played

\* C3: get_player_pnl reports, for every player with an entry in
\* player_join_game, games_played = (leave index if set, else game_count) -
\* join index, total buy-in = buy_in * games_played and net P/L =
\* total_winnings - total buy-in; it fails exactly when a name is given that
\* has no entry in player_join_game; without a name it covers every player
\* that ever joined.
C3_PnlReport ==
    After("get_player_pnl") =>
        LET name   == last.arg
            joined == DOMAIN session.player_join_game
        IN  /\ ~last.ret.ok <=> (name # None /\ Val(name) \notin joined)
            /\ last.ret.ok =>
                 /\ DOMAIN last.ret.results = (IF name = None THEN joined ELSE {Val(name)})
                 /\ \A p \in DOMAIN last.ret.results :
                        PnlFiguresRight(session, p, last.ret.results[p])

\* the same statement for the calls whose name is absent or not empty
C3_PnlReportOfNonEmptyName ==
    (After("get_player_pnl") /\ last.arg # Some("")) => C3_PnlReport

(* ------------------------------- C4 ------------------------------------ *)

\* C4: add_player(name) with name already active returns failure and leaves
\* every field of the session, the events log included, as it was.
C4_DuplicateAdd ==
    [][(last'.op = "add_player" /\ HasKey(session.active_players, Val(last'.arg))) =>
          (~last'.ret.ok /\ session' = session)
    ]_vars

\* a duplicate add refused in a later game
C4_Witness ==
    /\ AfterFailure("add_player")
    /\ HasKey(session.active_players, Val(last.arg))
    /\ session.game_count >= 2

(* ------------------------------- C5 ------------------------------------ *)

\* C5: remove_player(name) and set_winner(name) with name not active (never
\* seen, or joined earlier and left since) return failure and leave every
\* field of the session as it was: no event, no advance of game_count, no
\* change of winnings, win counts, stacks or join/leave indices.
C5_InactiveName ==
    [][(last'.op \in {"remove_player", "set_winner"}
          /\ ~HasKey(session.active_players, Val(last'.arg))) =>
          (~last'.ret.ok /\ session' = session)
    ]_vars

\* a win refused for a player who joined earlier and has left
C5_Witness ==
    /\ AfterFailure("set_winner")
    /\ Val(last.arg) \in DOMAIN session.player_join_game
    /\ ~HasKey(session.active_players, Val(last.arg))
    /\ \E q \in Players : HasKey(session.active_players, q)

(* ------------------------------- C6 ------------------------------------ *)

\* C6: a successful remove_player(n) sets player_leave_game[n] and keeps
\* total_winnings[n] and win_counts[n]; a later successful add_player(n)
\* clears player_leave_game[n], makes n active with stack buy_in and keeps
\* total_winnings[n] and win_counts[n].
C6_LeaveAndRejoin ==
    [][LET n == Val(last'.arg) IN
       /\ Succeeded("remove_player") =>
             /\ session'.player_leave_game[n] # None
             /\ session'.total_winnings[n] = session.total_winnings[n]
             /\ session'.win_counts[n] = session.win_counts[n]
       /\ (Succeeded("add_player") /\ Get(session.player_leave_game, n, None) # None) =>
             /\ session'.player_leave_game[n] = None
             /\ HasKey(session'.active_players, n)
             /\ StackOf(session'.active_players, n) = session.buy_in
             /\ session'.total_winnings[n] = session.total_winnings[n]
             /\ session'.win_counts[n] = session.win_counts[n]
    ]_vars

\* a player added, then a winner, then removed, is added again
C6_Witness ==
    /\ AfterSuccess("add_player")
    /\ Cardinality(EventsOf(session, "IN", Val(last.arg))) = 2
    /\ EventsOf(session, "OUT", Val(last.arg)) # {}
    /\ session.win_counts[Val(last.arg)] = 1
    /\ session.total_winnings[Val(last.arg)] > 0

(* ------------------------------- C7 ------------------------------------ *)

\* C7: add_player(name) succeeds when name is not active; it then sets
\* active_players[name] = buy_in and player_join_game[name] = game_count,
\* leaves player_leave_game[name] unset, starts total_winnings[name] and
\* win_counts[name] at 0 for a brand-new name, appends exactly one IN event
\* for name with stack buy_in, changes no other player's entries and not
\* game_count, and reports the pool buy_in * |active_players| counted after
\* the add.
C7_AddPlayer ==
    [][last'.op = "add_player" =>
        LET n == Val(last'.arg) IN
        /\ last'.ret.ok <=> ~HasKey(session.active_players, n)
        /\ last'.ret.ok =>
             /\ HasKey(session'.active_players, n)
             /\ StackOf(session'.active_players, n) = session.buy_in
             /\ OPop(session'.active_players, n) = session.active_players
             /\ session'.player_join_game[n] = session.game_count
             /\ session'.player_leave_game[n] = None
             /\ n \notin DOMAIN session.total_winnings => session'.total_winnings[n] = 0
             /\ n \notin DOMAIN session.win_counts => session'.win_counts[n] = 0
             /\ session'.events =
                   Append(session.events,
                          <<session.date, "IN", n, <<"Joined">>, session.buy_in>>)
             /\ SameButFor(session.total_winnings, session'.total_winnings, n)
             /\ SameButFor(session.win_counts, session'.win_counts, n)
             /\ SameButFor(session.player_join_game, session'.player_join_game, n)
             /\ SameButFor(session.player_leave_game, session'.player_leave_game, n)
             /\ session'.game_count = session.game_count
             /\ session'.buy_in = session.buy_in
             /\ last'.ret.total_prize = session.buy_in * Len(session'.active_players)
    ]_vars

\* a name never seen before joins a running table in a later game
C7_Witness ==
    /\ AfterSuccess("add_player")
    /\ EventsOf(session, "JOIN", Val(last.arg)) = {}
    /\ Cardinality(EventsOf(session, "IN", Val(last.arg))) = 1
    /\ session.game_count >= 2
    /\ Len(session.active_players) = 2

(* ------------------------------- C8 ------------------------------------ *)

\* C8: a successful remove_player(name) takes name out of active_players,
\* sets player_leave_game[name] = game_count, appends exactly one OUT event
\* for name with the stack held at removal, leaves total_winnings,
\* win_counts, game_count and every other player's entries unchanged, and
\* reports that stack with the pool buy_in * (remaining active players).
C8_RemovePlayer ==
    [][Succeeded("remove_player") =>
        LET n == Val(last'.arg)
            stack == StackOf(session.active_players, n)
        IN  /\ HasKey(session.active_players, n)
            /\ ~HasKey(session'.active_players, n)
            /\ session'.active_players = OPop(session.active_players, n)
            /\ Len(session'.active_players) = Len(session.active_players) - 1
            /\ session'.player_leave_game[n] = Some(session.game_count)
            /\ session'.events =
                  Append(session.events, <<session.date, "OUT", n, <<"Left">>, stack>>)
            /\ session'.total_winnings = session.total_winnings
            /\ session'.win_counts = session.win_counts
            /\ session'.game_count = session.game_count
            /\ session'.player_join_game = session.player_join_game
            /\ SameButFor(session.player_leave_game, session'.player_leave_game, n)
            /\ last'.ret.stack = stack
            /\ last'.ret.total_prize = session.buy_in * (Len(session.active_players) - 1)
    ]_vars

\* a past winner leaves in a later game while another player stays
C8_Witness ==
    /\ AfterSuccess("remove_player")
    /\ session.game_count >= 2
    /\ Len(session.active_players) >= 1
    /\ session.total_winnings[Val(last.arg)] > 0

(* ------------------------------- C9 ------------------------------------ *)

\* C9: a successful set_winner(p) in game g appends, in this order and
\* nothing else, one WIN event for p labelled with g whose stack is the
\* pool, then one NEWGAME event per active player labelled with g+1 whose
\* stack is buy_in; game_count is g+1 in the state the call returns to, so
\* no state has a WIN for game g in the log while game_count is still g.
C9_WinLog ==
    /\ [][Succeeded("set_winner") =>
            LET p      == Val(last'.arg)
                g      == session.game_count
                roster == Keys(session.active_players)
            IN  /\ session'.game_count = g + 1
                /\ Keys(session'.active_players) = roster
                /\ session'.events =
                      session.events
                      \o << <<session.date, "WIN", p, <<"Won Game #", g>>,
                              session.buy_in * Len(roster)>> >>
                      \o [i \in 1..Len(roster) |->
                             <<session.date, "NEWGAME", roster[i], <<"Game #", g + 1>>,
                               session.buy_in>>]
       ]_vars
    /\ [](\A i \in 1..Len(session.events) :
              session.events[i][2] = "WIN" => session.events[i][4][2] < session.game_count)

\* the second game is won at a table of two
C9_Witness ==
    /\ AfterSuccess("set_winner")
    /\ last.ret.game = 2
    /\ Len(session.active_players) = 2
    /\ session.events[Len(session.events)][2] = "NEWGAME"

(* ------------------------------- C10 ----------------------------------- *)

\* C10: game_count >= 1 in every reachable state; a successful set_winner
\* adds exactly 1 to it and every other call (add_player, remove_player,
\* failed calls, queries) leaves it unchanged, so it never decreases.
C10_GameCount ==
    /\ [](session.game_count >= 1)
    /\ [][/\ Succeeded("set_winner") => session'.game_count = session.game_count + 1
          /\ ~Succeeded("set_winner") => session'.game_count = session.game_count
          /\ session'.game_count >= session.game_count
       ]_vars

\* two wins have moved the session to its third game
C10_Witness ==
    /\ AfterSuccess("set_winner")
    /\ session.game_count = 3
    /\ last.ret.started = 3
(* ------------------------------- C11 ----------------------------------- *)

\* C11: over every step of every sequence of ledger operations, removal and
\* re-add included, total_winnings[p] and win_counts[p] of every player p
\* are greater than or equal to their values before the step.
C11_Monotone ==
    [][\A p \in DOMAIN session.total_winnings :
          /\ p \in DOMAIN session'.total_winnings
          /\ session'.total_winnings[p] >= session.total_winnings[p]
          /\ session'.win_counts[p] >= session.win_counts[p]
    ]_vars

\* the same statement for the sessions whose buy-in is not negative
C11_MonotoneOfNonNegativeBuyIn ==
    [][session.buy_in >= 0 =>
          \A p \in DOMAIN session.total_winnings :
              /\ p \in DOMAIN session'.total_winnings
              /\ session'.total_winnings[p] >= session.total_winnings[p]
              /\ session'.win_counts[p] >= session.win_counts[p]
    ]_vars

(* ------------------------------- C12 ----------------------------------- *)

\* C12: for every player p that ever joined, player_join_game[p] <=
\* game_count, player_leave_game[p] >= player_join_game[p] whenever it is
\* set, and so games played = (leave index if set, else game_count) - join
\* index is >= 0, also after leave/re-join cycles.
C12_GamesPlayedNotNegative ==
    \A p \in DOMAIN session.player_join_game :
        /\ session.player_join_game[p] <= session.game_count
        /\ session.player_leave_game[p] # None =>
               Val(session.player_leave_game[p]) >= session.player_join_game[p]
        /\ get_player_games_played(session, p) >= 0

\* a player has left, come back in a later game and left again
C12_Witness ==
    \E p \in DOMAIN session.player_join_game :
        /\ Cardinality(EventsOf(session, "OUT", p)) = 2
        /\ session.player_leave_game[p] # None
        /\ session.player_join_game[p] >= 2

(* ------------------------------- C13 ----------------------------------- *)

\* the game in progress when event i was logged: one more than the number of
\* games closed before it
GameAt(s, i) == 1 + Cardinality({j \in 1..(i - 1) : s.events[j][2] = "WIN"})

\* the position in the log of the last removal of p
LastOut(s, p) == CHOOSE i \in EventsOf(s, "OUT", p) : \A j \in EventsOf(s, "OUT", p) : j <= i

\* C13: player_leave_game[p] is unset for every active p; for every player
\* that joined and is not active it is the game_count that was current when
\* the player was last removed.
C13_LeaveBookmark ==
    /\ \A p \in Active(session) : session.player_leave_game[p] = None
    /\ \A p \in (DOMAIN session.player_join_game) \ Active(session) :
          /\ EventsOf(session, "OUT", p) # {}
          /\ session.player_leave_game[p] = Some(GameAt(session, LastOut(session, p)))

\* a player who left during game 2 is still out in game 3
C13_Witness ==
    /\ session.game_count = 3
    /\ \E p \in (DOMAIN session.player_join_game) \ Active(session) :
          session.player_leave_game[p] = Some(2)

\* a player who left and came back is active
C13_WitnessOfReturn ==
    \E p \in Active(session) : EventsOf(session, "OUT", p) # {}

(* ------------------------------- C14 ----------------------------------- *)

\* C14: every key of active_players has an entry in player_join_game.
C14_ActiveHaveJoined ==
    \A i \in 1..Len(session.active_players) :
        session.active_players[i][1] \in DOMAIN session.player_join_game

\* the table holds a player of the initial list and one added later
C14_Witness ==
    /\ \E p \in Active(session) : p \in NamesOf(session.initial_players)
    /\ \E p \in Active(session) : p \notin NamesOf(session.initial_players)

(* ------------------------------- C15 ----------------------------------- *)

EventTypes == {"JOIN", "IN", "OUT", "WIN", "NEWGAME"}

\* C15: the log is append-only: after every operation the previous log is a
\* prefix of the new one; every event's type is one of JOIN, IN, OUT, WIN,
\* NEWGAME; the log of a session created with at least one player is never
\* empty.
C15_AppendOnlyLog ==
    /\ [][/\ Len(session'.events) >= Len(session.events)
          /\ SubSeq(session'.events, 1, Len(session.events)) = session.events
       ]_vars
    /\ [](/\ \A i \in 1..Len(session.events) : session.events[i][2] \in EventTypes
          /\ Len(session.initial_players) >= 1 => session.events # <<>>)

\* a log that holds an event of each of the five types
C15_Witness ==
    \A ty \in EventTypes : \E i \in 1..Len(session.events) : session.events[i][2] = ty
(* ------------------------------- C16 ----------------------------------- *)

\* the calls that return a success flag
FlaggedOps == {"add_player", "remove_player", "set_winner", "get_player_pnl"}

C17_FinalResults ==
    After("get_final_results") =>
        LET res    == last.ret.value
            listed == NamesOf(session.initial_players) \cup Active(session)
        IN  /\ {r.name : r \in res} = listed
            /\ Cardinality(res) = Cardinality(listed)
            /\ \A r \in res :
                  /\ r.buy_in = session.buy_in
                  /\ r.rebuys = 0
                  /\ r.final_stack = (IF HasKey(session.active_players, r.name)
                                      THEN StackOf(session.active_players, r.name) ELSE 0)
                  /\ r.pnl = r.final_stack - session.buy_in
            /\ res = get_final_results([session EXCEPT !.total_winnings = EmptyDict,
                                                       !.win_counts = EmptyDict,
                                                       !.game_count = 1])

\* results asked for in game 3, after an initial player has left, a later
\* player has sat down and money has been won
C17_Witness ==
    /\ After("get_final_results")
    /\ session.game_count = 3
    /\ \E p \in NamesOf(session.initial_players) : ~HasKey(session.active_players, p)
    /\ \E p \in Active(session) :
          p \notin NamesOf(session.initial_players) /\ session.total_winnings[p] > 0

(* ------------------------------- C18 ----------------------------------- *)

QueryOps == {"get_player_pnl", "get_final_results", "format_events",
             "get_tracking_data", "get_session_info"}

Ledgers(h) == [i \in 1..Len(h) |-> h[i].ledger]

\* the coroutine t takes the step
Steps(t) == tasks'[t] # tasks[t]

\* the step is the arrival of a message, handled by the coroutine t
Arrives(t) == Steps(t) /\ received' # received

(* ------------------------------- C19 ----------------------------------- *)

\* C19: the start command never constructs a Session with buy_in <= 0: no
\* session object has such a buy-in, and a start with a zero or negative
\* buy-in leaves the channel's entry in active_sessions as it was.
C19_PositiveBuyIn ==
    [][\A t \in Tasks :
          (Arrives(t) /\ tasks'[t].cmd.name = "start" /\ tasks'[t].cmd.nargs >= 3
             /\ tasks'[t].cmd.amount # None /\ Val(tasks'[t].cmd.amount) <= 0)
          => /\ heap' = heap
             /\ active_sessions' = active_sessions
    ]_vars
    /\ [](\A i \in 1..Len(heap) : heap[i].ledger.buy_in > 0)

(* ------------------------------- C20 ----------------------------------- *)

SheetPcs == {"start_sheet", "start_warn", "sync"}

SheetWarnings == {Say("Error updating game sheet"),
                  Say("Warning: Failed to save to spreadsheet")}

\* every failed sheet call in the output o is followed by a warning
Warned(o) ==
    \A i \in 1..Len(o) :
        (o[i].io = "sheet" /\ o[i].outcome # "ok")
        => \E j \in (i + 1)..Len(o) : o[j] \in SheetWarnings

\* the ledger method behind a command
LedgerCall(name, s, text) ==
    CASE name = "in"  -> add_player(s, text)
      [] name = "out" -> remove_player(s, text)
      [] name = "win" -> set_winner(s, text)

\* the command reaches its ledger method when the channel has a session
ReachesLedger(cmd) ==
    /\ cmd.name \in {"in", "out", "win"}
    /\ cmd.nargs >= 2
    /\ cmd.name = "win" \/ cmd.text # ""

\* C20: the sheet sync of start, in, out and win, failed or not, changes no
\* ledger and no entry of active_sessions; a handler that has finished has
\* sent a warning after every failed sheet call; and an in, out or win on a
\* channel with a session is answered with the result of the ledger method,
\* which is applied to that session, whatever happened to its sheet.
C20_SheetFailureKeepsLedger ==
    [][\A t \in Tasks :
          /\ (Steps(t) /\ tasks[t].pc \in SheetPcs)
             => /\ Ledgers(heap') = Ledgers(heap)
                /\ active_sessions' = active_sessions
          /\ (Arrives(t) /\ ReachesLedger(tasks'[t].cmd)
                /\ active_sessions[tasks'[t].cmd.channel] # None)
             => LET cmd == tasks'[t].cmd
                    id  == Val(active_sessions[cmd.channel])
                    r   == LedgerCall(cmd.name, heap[id].ledger, cmd.text)
                IN  /\ tasks'[t].out = <<Reply(cmd.name, r.ret)>>
                    /\ Ledgers(heap') = [Ledgers(heap) EXCEPT ![id] = r.session]
                    /\ active_sessions' = active_sessions
    ]_vars
    /\ [](\A t \in Tasks : tasks[t].pc = "idle" => Warned(tasks[t].out))

\* every handler has finished; the sheet of the channel's session could not
\* be created, a later in has seated its player all the same, its sheet
\* update failed for want of the sheet, and the user was warned
C20_Witness ==
    /\ \A t \in Tasks : tasks[t].pc = "idle"
    /\ \E t \in Tasks :
          LET task == tasks[t] IN
          /\ task.cmd.name = "in"
          /\ task.session # None
          /\ active_sessions[task.cmd.channel] = task.session
          /\ ~heap[Val(task.session)].has_sheet_name
          /\ HasKey(heap[Val(task.session)].ledger.active_players, task.cmd.text)
          /\ Len(task.out) = 3
          /\ task.out[1].ret.ok
          /\ task.out[2] = Sheet("update", "no sheet name")
          /\ task.out[3] = Say("Error updating game sheet")

(* ------------------------------- C21 ----------------------------------- *)

\* the channel of the command the coroutine t is handling after the step
ChannelOf(t) == tasks'[t].cmd.channel

\* C21: no session object is registered for two channels, and a step of a
\* handler of a command on channel c leaves the entry of every other channel
\* in active_sessions, and the session object registered there (its ledger
\* with the events log, and its sheet name), as they were.
C21_ChannelsApart ==
    [][\A t \in Tasks : Steps(t) =>
          \A d \in Channels \ {ChannelOf(t)} :
              /\ active_sessions'[d] = active_sessions[d]
              /\ active_sessions[d] # None =>
                    heap'[Val(active_sessions[d])] = heap[Val(active_sessions[d])]
    ]_vars
    /\ [](\A c, d \in Channels :
             (c # d /\ active_sessions[c] # None) => active_sessions[c] # active_sessions[d])

\* both channels have a session; the command received last (a new command
\* goes to the first coroutine that is free) is an in on channel 1, which
\* has seated its player and waits for its sheet update, and the session of
\* channel 2 is as it was created
C21_Witness ==
    /\ active_sessions[1] # None
    /\ active_sessions[2] # None
    /\ tasks[1].pc = "sync"
    /\ tasks[1].cmd.name = "in"
    /\ tasks[1].cmd.channel = 1
    /\ tasks[1].session = active_sessions[1]
    /\ LET s == heap[Val(active_sessions[2])].ledger
       IN  s = NewSession(s.buy_in, s.initial_players, s.date)

(* ------------------------------- C22 ----------------------------------- *)

\* a session as the constructor leaves it
Fresh(s) ==
    /\ s.game_count = 1
    /\ Len(s.events) >= 1
    /\ \A i \in 1..Len(s.events) : s.events[i][2] = "JOIN" /\ s.events[i][4] = <<"Initial">>
    /\ \A p \in DOMAIN s.total_winnings : s.total_winnings[p] = 0
    /\ \A p \in DOMAIN s.win_counts : s.win_counts[p] = 0

\* the step on which the start handled by t registers its new session
Installs(t) == Steps(t) /\ tasks'[t].pc = "start_sheet" /\ tasks[t].pc # "start_sheet"

\* the start handled by t found a session on its channel and reported it
ReportedOld(task) ==
    /\ task.cmd.name = "start"
    /\ task.out # <<>>
    /\ task.out[1].kind = "Final Results of Previous Session"

NeedSession == {"in", "out", "win", "pnl", "events", "end"}

\* what a start that registers a session does, and what end and the commands
\* after it do
ReplaceAndEndSteps ==
    \A t \in Tasks :
        LET c == ChannelOf(t) IN
        /\ Installs(t) =>
              /\ active_sessions'[c] = Some(Len(heap) + 1)
              /\ Len(heap') = Len(heap) + 1
              /\ Fresh(heap'[Len(heap) + 1].ledger)
              /\ active_sessions[c] # None =>
                    \A d \in Channels : active_sessions'[d] # active_sessions[c]
        /\ (Steps(t) /\ tasks[t].pc = "end_del") => active_sessions'[c] = None
        /\ (Arrives(t) /\ tasks'[t].cmd.name \in NeedSession /\ active_sessions[c] = None)
              => /\ tasks'[t].out = <<NoSessionMsg>>
                 /\ tasks'[t].pc = "idle"
                 /\ heap' = heap
                 /\ active_sessions' = active_sessions

\* C22: a valid start on a channel that has a session replaces it: once its
\* handler has finished it has registered a fresh session (game_count = 1,
\* only initial JOIN events, no winnings) and the old one is registered
\* nowhere; end leaves the channel without a session, and an in, out, win,
\* pnl, events or end that arrives while the channel has none is answered
\* with the no-active-session error and changes nothing.
C22_ReplaceAndEnd ==
    [][ReplaceAndEndSteps]_vars
    /\ [](\A t \in Tasks :
             (tasks[t].pc = "idle" /\ ReportedOld(tasks[t]))
             => \E i \in 1..Len(tasks[t].out) :
                    tasks[t].out[i].kind = "New Poker Session Started")

\* the steps of C22 alone: what holds of every start that gets as far as
\* registering its session
C22_ReplaceAndEndOfStartsThatInstall == [][ReplaceAndEndSteps]_vars

(* ------------------------------- C23 ----------------------------------- *)

\* the dispatcher rejects the start: fewer than three arguments, a buy-in
\* float() does not accept, or no player name that is not blank
RejectedStart(cmd) ==
    /\ cmd.name = "start"
    \* the list of names is read only when there are three arguments
    /\ \/ cmd.nargs < 3
       \/ cmd.amount = None
       \/ \A i \in 1..Len(cmd.pieces) : cmd.pieces[i] = ""

StartRejections == {Say("Invalid start command"), Say("Invalid buy-in amount"),
                    Say("No valid players provided")}

\* C23: a start with fewer than three arguments, a non-numeric buy-in or no
\* non-empty player name is answered with its error message and nothing
\* else: no session is constructed, and active_sessions and every session
\* object stay as they were.
C23_RejectedStart ==
    [][\A t \in Tasks :
          (Arrives(t) /\ RejectedStart(tasks'[t].cmd))
          => /\ heap' = heap
             /\ active_sessions' = active_sessions
             /\ tasks'[t].pc = "idle"
             /\ Len(tasks'[t].out) = 1
             /\ tasks'[t].out[1] \in StartRejections
    ]_vars

\* the command received last is a start without a player name, on a channel
\* whose session is in its second game; the session is still registered
C23_Witness ==
    /\ tasks[1].cmd.name = "start"
    /\ tasks[1].out = <<Say("No valid players provided")>>
    /\ \A t \in Tasks : tasks[t].pc = "idle"
    /\ active_sessions[tasks[1].cmd.channel] # None
    /\ heap[Val(active_sessions[tasks[1].cmd.channel])].ledger.game_count = 2

(* ------------------------------- C24 ----------------------------------- *)

\* the sum of the stacks of the WIN events i.. of the log that name p
RECURSIVE SumOfWins(_, _, _)
SumOfWins(events, p, i) ==
    IF i > Len(events) THEN 0
    ELSE (IF events[i][2] = "WIN" /\ events[i][3] = p THEN events[i][5] ELSE 0)
         + SumOfWins(events, p, i + 1)

WinEvents(s) == {i \in 1..Len(s.events) : s.events[i][2] = "WIN"}

\* no mutation of the ledger s is half done: every win is credited, counted
\* and logged, has opened its next game and has reset the table; everyone
\* seated has a join index and no leave index, everyone else who joined has
\* a leave index
Settled(s) ==
    /\ s.game_count = 1 + Cardinality(WinEvents(s))
    /\ \A i \in WinEvents(s) :
          /\ i < Len(s.events)
          /\ s.events[i + 1][2] = "NEWGAME"
          /\ \E g \in 1..s.game_count :
                /\ s.events[i][4] = <<"Won Game #", g>>
                /\ s.events[i + 1][4] = <<"Game #", g + 1>>
    /\ \A p \in DOMAIN s.win_counts :
          /\ s.win_counts[p] = Cardinality(EventsOf(s, "WIN", p))
          /\ s.total_winnings[p] = SumOfWins(s.events, p, 1)
    /\ \A i \in 1..Len(s.active_players) : s.active_players[i][2] = s.buy_in
    /\ \A p \in Active(s) :
          p \in DOMAIN s.player_join_game /\ s.player_leave_game[p] = None
    /\ \A p \in DOMAIN s.player_join_game :
          ~HasKey(s.active_players, p) => s.player_leave_game[p] # None

\* C24: add_player, remove_player and set_winner have no suspension point,
\* so wherever a handler or a sheet sync can run, that is in every state
\* between two stretches of the handlers, no session holds a half-applied
\* mutation, however the handlers interleave.
C24_NoPartialMutation == \A i \in 1..Len(heap) : Settled(heap[i].ledger)

\* two handlers are in flight on one session, both between their ledger call
\* and their sheet update; one of them has recorded a win
C24_Witness ==
    /\ tasks[1].pc = "sync"
    /\ tasks[2].pc = "sync"
    /\ tasks[1].session = tasks[2].session
    /\ \E t \in Tasks : tasks[t].cmd.name = "win"
    /\ \E t \in Tasks : tasks[t].cmd.name \in {"in", "out"}

(* ------------------------------- C25 ----------------------------------- *)

\* where a handler waits between reporting the session it looked up and
\* deleting the channel's entry (lines 134-135 and 240-241)
DeletePcs == {"start_del", "end_del"}

\* C25: handlers of one channel do not interleave, so that when an end or a
\* start comes back from the await after its report, the channel's entry is
\* still the session it looked up and reported: it deletes that session and
\* no other, and never finds the entry missing.
C25_OneAtATime ==
    [][\A t \in Tasks :
          (Steps(t) /\ tasks[t].pc \in DeletePcs)
          => /\ active_sessions[ChannelOf(t)] = tasks[t].session
             /\ tasks'[t].out[Len(tasks'[t].out)] \notin
                    {Raise("KeyError"), Say("An error occurred while starting")}
    ]_vars

(* ------------------------------- C26 ----------------------------------- *)

\* the positions of the sheet calls in the output o
SheetCalls(o) == {i \in 1..Len(o) : o[i].io = "sheet"}

\* the handler has called its ledger method and sent what it returned
Replied(task) ==
    /\ task.cmd.name \in {"in", "out", "win"}
    /\ task.out # <<>>
    /\ "ret" \in DOMAIN task.out[1]

\* C26: a handler of in, out or win calls the sheet update only after it has
\* sent the message of its ledger call, and only if the call returned
\* success: after a failure it has finished without a sheet call, after a
\* success it makes one sheet call and no more.
C26_SheetUpdateIffSuccess ==
    \A t \in Tasks :
        LET task == tasks[t] IN
        task.cmd.name \in {"in", "out", "win"} =>
            /\ SheetCalls(task.out) # {} => Replied(task)
            /\ Replied(task) =>
                  /\ \A i \in SheetCalls(task.out) : i > 1 /\ task.out[i].kind = "update"
                  /\ Cardinality(SheetCalls(task.out)) =
                        (IF task.out[1].ret.ok /\ task.pc = "idle" THEN 1 ELSE 0)
                  /\ task.pc = (IF task.out[1].ret.ok /\ SheetCalls(task.out) = {}
                                THEN "sync" ELSE "idle")

\* both handlers have finished: one was refused by the ledger and called no
\* sheet update, the other succeeded and called one
C26_Witness ==
    /\ \A t \in Tasks : tasks[t].pc = "idle"
    /\ \E t \in Tasks :
          Replied(tasks[t]) /\ ~tasks[t].out[1].ret.ok /\ SheetCalls(tasks[t].out) = {}
    /\ \E t \in Tasks :
          Replied(tasks[t]) /\ tasks[t].out[1].ret.ok /\ SheetCalls(tasks[t].out) = {2}

(***************************************************************************)
(* Further claims about the ledger, checked under Spec.                    *)
(***************************************************************************)

\* the sum of the Net P/L figures that the summary prints for the players ps
RECURSIVE SumNet(_, _)
SumNet(results, ps) ==
    IF ps = {} THEN 0
    ELSE LET p == CHOOSE q \in ps : TRUE
         IN  NetValue(results[p].net) + SumNet(results, ps \ {p})

\* the Net P/L figures of get_player_pnl() add up to zero
ZeroSum(s) ==
    LET r == get_player_pnl(s, None)
    IN  r.ok /\ DOMAIN r.results = DOMAIN s.player_join_game
             /\ SumNet(r.results, DOMAIN r.results) = 0

(* ------------------------------- C27 ----------------------------------- *)

\* C27: in every state reached by create, add_player, remove_player and
\* set_winner, sessions in which a player leaves and re-joins included, the
\* Net P/L figures of all players who ever joined add up to zero (for the
\* sessions create allows, those with buy_in > 0).
C27_ZeroSum == session.buy_in > 0 => ZeroSum(session)

(* ------------------------------- C28 ----------------------------------- *)

\* nobody has been added again after having been removed
NoReturn(s) ==
    \A i, j \in 1..Len(s.events) :
        (i < j /\ s.events[i][2] = "OUT" /\ s.events[j][2] = "IN")
        => s.events[i][3] # s.events[j][3]

\* C28: as long as nobody is re-added after having been removed, the Net
\* P/L figures of all players who ever joined add up to zero; and a win
\* charges one more game to exactly the players seated when it is recorded
\* (a player who joined during the game is charged, one who left is not).
C28_ZeroSumWithoutReturn ==
    [](NoReturn(session) => ZeroSum(session))
    /\ [][Succeeded("set_winner") =>
             \A p \in DOMAIN session.player_join_game :
                 get_player_games_played(session', p) =
                     get_player_games_played(session, p)
                     + (IF HasKey(session.active_players, p) THEN 1 ELSE 0)
       ]_vars

\* two games have been won for money, one player joined after the start,
\* another left before the second win, nobody came back, and somebody is
\* up
C28_Witness ==
    /\ AfterSuccess("set_winner")
    /\ NoReturn(session)
    /\ session.game_count = 3
    /\ session.buy_in > 0
    /\ \E i \in 1..Len(session.events) : session.events[i][2] = "IN"
    /\ \E i \in 1..Len(session.events) : session.events[i][2] = "OUT"
    /\ \E p \in DOMAIN session.player_join_game :
          NetValue(get_player_pnl(session, None).results[p].net) > 0

(* ------------------------------- C29 ----------------------------------- *)

\* C29: between operations every active player's stack equals buy_in, and
\* the Total Pool of get_session_info, the sum of the stacks, equals buy_in
\* times the number of active players; a successful remove_player reports
\* and logs a stack of exactly buy_in.
C29_StacksAreBuyIn ==
    [](/\ \A i \in 1..Len(session.active_players) :
             session.active_players[i][2] = session.buy_in
       /\ get_session_info(session).total_pool =
             session.buy_in * Len(session.active_players))
    /\ [][Succeeded("remove_player") =>
             /\ last'.ret.stack = session.buy_in
             /\ session'.events[Len(session'.events)] =
                   <<session.date, "OUT", Val(last'.arg), <<"Left">>, session.buy_in>>
       ]_vars

\* a player who has won a pool leaves while another stays seated: the stack
\* reported is the buy-in, not the winnings
C29_Witness ==
    /\ AfterSuccess("remove_player")
    /\ session.buy_in > 0
    /\ session.total_winnings[last.ret.player] > session.buy_in
    /\ last.ret.stack = session.buy_in
    /\ Len(session.active_players) >= 1

(* ------------------------------- C30 ----------------------------------- *)

\* C30: win_counts and total_winnings have the same players; for each of
\* them win_counts is the number of WIN events that name the player and
\* total_winnings is the sum of the stack values of those events; and every
\* WIN event names one of them.
C30_AggregatesAgreeWithLog ==
    /\ DOMAIN session.total_winnings = DOMAIN session.win_counts
    /\ \A p \in DOMAIN session.win_counts :
          /\ session.win_counts[p] = Cardinality(EventsOf(session, "WIN", p))
          /\ session.total_winnings[p] = SumOfWins(session.events, p, 1)
    /\ \A i \in WinEvents(session) : session.events[i][3] \in DOMAIN session.win_counts

\* a player who won the pool of a table of two has left and come back, and
\* still has the win and the pool
C30_Witness ==
    /\ AfterSuccess("add_player")
    /\ session.buy_in > 0
    /\ session.win_counts[last.ret.player] = 1
    /\ session.total_winnings[last.ret.player] = 2 * session.buy_in
    /\ \E i \in 1..Len(session.events) :
          session.events[i][2] = "OUT" /\ session.events[i][3] = last.ret.player

(* ------------------------------- C31 ----------------------------------- *)

\* the sum of the values of the dict d over the keys ks
RECURSIVE SumOver(_, _)
SumOver(d, ks) ==
    IF ks = {} THEN 0
    ELSE LET k == CHOOSE q \in ks : TRUE IN d[k] + SumOver(d, ks \ {k})

\* C31: game_count - 1 is the number of WIN events in the log and the sum
\* of win_counts over all players, and the k-th WIN event of the log is
\* labelled with game index k.
C31_GamesAndWins ==
    /\ session.game_count - 1 = Cardinality(WinEvents(session))
    /\ session.game_count - 1 = SumOver(session.win_counts, DOMAIN session.win_counts)
    /\ \A i \in WinEvents(session) :
          session.events[i][4] =
              <<"Won Game #", Cardinality({j \in WinEvents(session) : j <= i})>>

\* two games have been won, by two players
C31_Witness ==
    /\ AfterSuccess("set_winner")
    /\ session.game_count = 3
    /\ \E p, q \in DOMAIN session.win_counts :
          p # q /\ session.win_counts[p] = 1 /\ session.win_counts[q] = 1

(* ------------------------------- C32 ----------------------------------- *)

\* the JOIN, IN and OUT events that name p, as indices into the log
RosterEvents(s, p) ==
    {i \in 1..Len(s.events) : s.events[i][3] = p /\ s.events[i][2] \in {"JOIN", "IN", "OUT"}}

Seats(s, i) == s.events[i][2] \in {"JOIN", "IN"}

\* C32: in a session created with distinct names, a player is in
\* active_players exactly if the latest JOIN, IN or OUT event that names the
\* player is a JOIN or an IN; and the JOIN/IN and the OUT events of each
\* player alternate, beginning with a JOIN or an IN.
C32_RosterFromLog ==
    Distinct(session.initial_players) =>
        \A p \in Players \cup {""} :
            LET idx == RosterEvents(session, p) IN
            /\ HasKey(session.active_players, p) <=>
                  (idx # {} /\ Seats(session, CHOOSE i \in idx : \A j \in idx : j <= i))
            /\ \A i \in idx :
                  IF \A j \in idx : i <= j
                  THEN Seats(session, i)
                  ELSE LET prev == CHOOSE j \in idx :
                                      j < i /\ \A k \in idx : k < i => k <= j
                       IN  Seats(session, i) # Seats(session, prev)

\* an initial player has left, come back and left again, while a player who
\* joined later is seated
C32_Witness ==
    /\ Distinct(session.initial_players)
    /\ \E p \in NamesOf(session.initial_players) :
          /\ Cardinality(RosterEvents(session, p)) = 4
          /\ ~HasKey(session.active_players, p)
    /\ \E q \in Active(session) : q \notin NamesOf(session.initial_players)

(* ------------------------------- C33 ----------------------------------- *)

\* C33: format_events shows the k-th WIN event of a player as Win #k,
\* whatever the player has won since.
C33_WinOrdinal ==
    \A i \in WinEvents(session) :
        LET p == session.events[i][3] IN
        format_events(session).lines[i][5]
            = Cardinality({j \in EventsOf(session, "WIN", p) : j <= i})


(***************************************************************************)
(* The RocketChat bot (specification SpecRocket).                          *)
(***************************************************************************)

\* C34: a chat message with a given id is processed as a command at most
\* once, however often the server delivers it and whatever arrives between
\* the deliveries, also after the set of processed ids exceeded its maximum.
C34_AtMostOnce ==
    \A i \in DOMAIN world.handled : world.handled[i] <= 1

\* what on_message did in its last call
DidActs == {world.step.did[k].act : k \in 1..Len(world.step.did)}
ProcessingActs ==
    {"process_message", "acknowledge", "save_game", "save_game raises", "reply",
     "no response"}

\* C35: no room message is processed as a command, and no game is saved or
\* reply sent for it, unless a successful login result and a subscription
\* ready message were both received earlier on the connection; login is sent
\* only after the server's connected message, and the room subscription only
\* after a successful login result.
C35_OnlyWhenReady ==
    [][world'.frames # world.frames =>
        /\ (DidActs' \cap ProcessingActs # {} => {"login ok", "ready"} \subseteq world.seen)
        /\ ("send_login" \in DidActs' => "connected" \in world'.seen)
        /\ ("subscribe_to_room" \in DidActs' => "login ok" \in world'.seen)]_vars
C35_Witness ==
    /\ world.step.frame.kind = "changed"
    /\ {"process_message", "save_game", "reply"} \subseteq DidActs
    /\ world.seen = {"connected", "login ok", "ready"}

\* the connection was established (the 'connected' frame arrived) and then lost
EstablishedAndLost == "connected" \in world.seen /\ world.link = "dropped"

\* C36: the main loop of start() reports the connection as lost and shuts
\* down only after the connection had been established and was then lost:
\* it has not shut down while the handshake was in progress.
C36_StopsOnlyAfterLoss ==
    world.main = "stopped" => EstablishedAndLost

\* what the loop does instead: ws_connected is written at lines 43 and 476
\* only, so once the 'connected' frame has arrived the loop never reports the
\* connection as lost, whatever happens to the socket
C36_EstablishedNeverReported ==
    pokerbot.ws_connected => world.main # "stopped"
C36_EstablishedAndLostReached ==
    EstablishedAndLost /\ pokerbot.ws_connected /\ world.main = "running"

====
